---- MODULE Spec2Model ----
(***************************************************************************)
(* Model of the layered containers of Infinytum/structures: builtinMap     *)
(* (K -> V) and builtinTable (K1 -> K2 -> V), each with an optional        *)
(* shadow container consulted on reads and never written.                  *)
(*                                                                         *)
(* The heap is a sequence of container objects; a container is named by    *)
(* its index and a shadow reference is the index of the shadow (Nil when   *)
(* the field is nil).  A Go map is a function with a finite domain.        *)
(* Spec runs one operation at a time (each operation is one critical       *)
(* section of the receiver's lock).  ConcSpec runs the operations of       *)
(* several goroutines step by step, with the sync.RWMutex of every         *)
(* container, on a chain of containers.                                    *)
(***************************************************************************)
EXTENDS Integers, Sequences, FiniteSets, TLC

\* ---- bounds of the model ------------------------------------------------
MaxContainers == 3
MaxKey == 2
MaxVal == 2
MaxOps == 3
MaxThreads == 2
MaxDepth == 2

Keys == 1..MaxKey
Values == 1..MaxVal
Threads == 1..MaxThreads

\* ---- program constants --------------------------------------------------
\* nil shadow reference
Nil == 0
\* zero value of the value type V (what an unassigned named result holds)
Zero == 0

NoErr == "nil"
TableDuplicateKeys == "the given keys already exist"
TableKeysNotFound == "no value was found for the given keys"
MapKeyNotFound == "key was not found"
MapDuplicateKey == "key already exists"
ErrDeleteFromShadow == "cannot delete from shadow table"

\* maps, tables: the heap of builtinMap / builtinTable objects
\* last: the operation that ran last, its arguments and what it returned
\* pre:  the heap as it was when that operation was called
\* nops: number of operations run so far
\* th:    per goroutine, the call it is in and where it stands in it
\* locks: the sync.RWMutex of every container
\* fatal: the Go runtime has aborted the process
\* start: the heap the goroutines started on
VARIABLES maps, tables, last, pre, nops, th, locks, fatal, start

vars == <<maps, tables, last, pre, nops, th, locks, fatal, start>>

\* ---- Go map primitives --------------------------------------------------
\* make(map[K]V)
EmptyMap == [k \in {} |-> Zero]

\* m[k] = v
MapPut(m, k, v) == [x \in (DOMAIN m) \cup {k} |-> IF x = k THEN v ELSE m[x]]

\* delete(m, k)
MapRemove(m, k) == [x \in (DOMAIN m) \ {k} |-> m[x]]

\* ---- builtinMap ---------------------------------------------------------
\* NewMap: empty table, no shadow
NewMap == [table |-> EmptyMap, shadow |-> Nil]

RECURSIVE MapContains(_, _, _)
MapContains(ms, c, key) ==
  IF key \in DOMAIN ms[c].table THEN TRUE
  ELSE IF ms[c].shadow # Nil THEN MapContains(ms, ms[c].shadow, key)
  ELSE FALSE

\* Get that never consults the shadow
MapGetLocalOnly(ms, c, key) ==
  IF key \in DOMAIN ms[c].table
  THEN [value |-> ms[c].table[key], err |-> NoErr]
  ELSE [value |-> Zero, err |-> TableKeysNotFound]

RECURSIVE MapGet(_, _, _)
MapGet(ms, c, key) ==
  IF key \in DOMAIN ms[c].table
  THEN [value |-> ms[c].table[key], err |-> NoErr]
  ELSE IF ms[c].shadow # Nil THEN MapGet(ms, ms[c].shadow, key)
  ELSE [value |-> Zero, err |-> TableKeysNotFound]

RECURSIVE MapGetOrDefault(_, _, _, _)
MapGetOrDefault(ms, c, key, def) ==
  IF key \in DOMAIN ms[c].table THEN ms[c].table[key]
  ELSE IF ms[c].shadow # Nil THEN MapGetOrDefault(ms, ms[c].shadow, key, def)
  ELSE def

\* Add whose duplicate check falls through to the shadow chain
MapAddChecksChain(ms, c, key, newVal) ==
  IF MapContains(ms, c, key)
  THEN [maps |-> ms, err |-> TableDuplicateKeys]
  ELSE [maps |-> [ms EXCEPT ![c].table = MapPut(@, key, newVal)], err |-> NoErr]

MapAdd(ms, c, key, newVal) ==
  IF key \in DOMAIN ms[c].table
  THEN [maps |-> ms, err |-> TableDuplicateKeys]
  ELSE [maps |-> [ms EXCEPT ![c].table = MapPut(@, key, newVal)], err |-> NoErr]

\* Delete that removes the key from the shadow when it is not local
MapDeleteThroughShadow(ms, c, key) ==
  IF key \in DOMAIN ms[c].table
  THEN [maps |-> [ms EXCEPT ![c].table = MapRemove(@, key)], err |-> NoErr]
  ELSE IF ms[c].shadow # Nil /\ MapContains(ms, ms[c].shadow, key)
  THEN [maps |-> [ms EXCEPT ![ms[c].shadow].table = MapRemove(@, key)],
        err |-> ErrDeleteFromShadow]
  ELSE [maps |-> ms, err |-> TableKeysNotFound]

MapDelete(ms, c, key) ==
  IF key \in DOMAIN ms[c].table
  THEN [maps |-> [ms EXCEPT ![c].table = MapRemove(@, key)], err |-> NoErr]
  ELSE IF ms[c].shadow # Nil /\ MapContains(ms, ms[c].shadow, key)
  THEN [maps |-> ms, err |-> ErrDeleteFromShadow]
  ELSE [maps |-> ms, err |-> TableKeysNotFound]

\* the named result `value` stays Zero when the shadow's Get fails
MapGetOrSet(ms, c, key, newVal) ==
  IF key \in DOMAIN ms[c].table
  THEN [maps |-> ms, value |-> ms[c].table[key]]
  ELSE IF ms[c].shadow # Nil
  THEN [maps |-> ms,
        value |-> IF MapGet(ms, ms[c].shadow, key).err = NoErr
                  THEN MapGet(ms, ms[c].shadow, key).value
                  ELSE Zero]
  ELSE [maps |-> [ms EXCEPT ![c].table = MapPut(@, key, newVal)],
        value |-> newVal]

MapSet(ms, c, key, newVal) ==
  [maps |-> [ms EXCEPT ![c].table = MapPut(@, key, newVal)], err |-> NoErr]

MapShadowCopy(ms, c) ==
  Append(ms, [NewMap EXCEPT !.shadow = c])

\* m starts as a copy of the local table, then every entry of the
\* flattened shadow is assigned over it
RECURSIVE MapToMap(_, _)
MapToMap(ms, c) ==
  IF ms[c].shadow = Nil THEN ms[c].table
  ELSE LET t == ms[c].table
           s == MapToMap(ms, ms[c].shadow)
       IN [k \in (DOMAIN t) \cup (DOMAIN s) |->
             IF k \in DOMAIN s THEN s[k] ELSE t[k]]

\* ---- builtinTable -------------------------------------------------------
\* NewTable: empty table, no shadow
NewTable == [table |-> EmptyMap, shadow |-> Nil]

\* table2, exists := t.table[k1]; _, exists := table2[k2]
TableHasLocal(t, k1, k2) == k1 \in DOMAIN t /\ k2 \in DOMAIN t[k1]

\* if k1 has no branch: t.table[k1] = make(map[K2]V2); then t.table[k1][k2] = newVal
TablePut(t, k1, k2, newVal) ==
  MapPut(t, k1, MapPut(IF k1 \in DOMAIN t THEN t[k1] ELSE EmptyMap, k2, newVal))

\* delete(t.table[k1], k2): the branch k1 stays, also when it becomes empty
TableRemove(t, k1, k2) == [t EXCEPT ![k1] = MapRemove(@, k2)]

RECURSIVE TableContains(_, _, _, _)
TableContains(ts, c, k1, k2) ==
  IF TableHasLocal(ts[c].table, k1, k2) THEN TRUE
  ELSE IF ts[c].shadow # Nil THEN TableContains(ts, ts[c].shadow, k1, k2)
  ELSE FALSE

RECURSIVE TableGet(_, _, _, _)
TableGet(ts, c, k1, k2) ==
  IF TableHasLocal(ts[c].table, k1, k2)
  THEN [value |-> ts[c].table[k1][k2], err |-> NoErr]
  ELSE IF ts[c].shadow # Nil THEN TableGet(ts, ts[c].shadow, k1, k2)
  ELSE [value |-> Zero, err |-> TableKeysNotFound]

RECURSIVE TableGetOrDefault(_, _, _, _, _)
TableGetOrDefault(ts, c, k1, k2, def) ==
  IF TableHasLocal(ts[c].table, k1, k2) THEN ts[c].table[k1][k2]
  ELSE IF ts[c].shadow # Nil
  THEN TableGetOrDefault(ts, ts[c].shadow, k1, k2, def)
  ELSE def

\* Add that overwrites the stored value before reporting the duplicate
TableAddOverwrites(ts, c, k1, k2, newVal) ==
  [tables |-> [ts EXCEPT ![c].table = TablePut(@, k1, k2, newVal)],
   err |-> IF TableHasLocal(ts[c].table, k1, k2)
           THEN TableDuplicateKeys ELSE NoErr]

TableAdd(ts, c, k1, k2, newVal) ==
  IF k1 \in DOMAIN ts[c].table /\ k2 \in DOMAIN ts[c].table[k1]
  THEN [tables |-> ts, err |-> TableDuplicateKeys]
  ELSE [tables |-> [ts EXCEPT ![c].table = TablePut(@, k1, k2, newVal)],
        err |-> NoErr]

\* Delete that reports a shadow-only key as not found
TableDeleteNotFoundInShadow(ts, c, k1, k2) ==
  IF TableHasLocal(ts[c].table, k1, k2)
  THEN [tables |-> [ts EXCEPT ![c].table = TableRemove(@, k1, k2)],
        err |-> NoErr]
  ELSE [tables |-> ts, err |-> TableKeysNotFound]

TableDelete(ts, c, k1, k2) ==
  IF TableHasLocal(ts[c].table, k1, k2)
  THEN [tables |-> [ts EXCEPT ![c].table = TableRemove(@, k1, k2)],
        err |-> NoErr]
  ELSE IF ts[c].shadow # Nil /\ TableContains(ts, ts[c].shadow, k1, k2)
  THEN [tables |-> ts, err |-> ErrDeleteFromShadow]
  ELSE [tables |-> ts, err |-> TableKeysNotFound]

\* the shadow branch of GetOrSet: Contains held, so the value is Get's when
\* Get succeeds and the unassigned named result otherwise
TableShadowValue(ts, c, k1, k2) ==
  IF TableGet(ts, ts[c].shadow, k1, k2).err = NoErr
  THEN TableGet(ts, ts[c].shadow, k1, k2).value
  ELSE Zero

\* GetOrSet that copies a value found in the shadow into local
TableGetOrSetPromote(ts, c, k1, k2, newVal) ==
  IF TableHasLocal(ts[c].table, k1, k2)
  THEN [tables |-> ts, value |-> ts[c].table[k1][k2]]
  ELSE IF ts[c].shadow # Nil /\ TableContains(ts, ts[c].shadow, k1, k2)
  THEN [tables |-> [ts EXCEPT ![c].table =
                      TablePut(@, k1, k2, TableShadowValue(ts, c, k1, k2))],
        value |-> TableShadowValue(ts, c, k1, k2)]
  ELSE [tables |-> [ts EXCEPT ![c].table = TablePut(@, k1, k2, newVal)],
        value |-> newVal]

\* GetOrSet that writes nothing when the receiver has a shadow
TableGetOrSetNoWrite(ts, c, k1, k2, newVal) ==
  IF TableHasLocal(ts[c].table, k1, k2)
  THEN [tables |-> ts, value |-> ts[c].table[k1][k2]]
  ELSE IF ts[c].shadow # Nil
  THEN [tables |-> ts,
        value |-> IF TableContains(ts, ts[c].shadow, k1, k2)
                  THEN TableShadowValue(ts, c, k1, k2) ELSE Zero]
  ELSE [tables |-> [ts EXCEPT ![c].table = TablePut(@, k1, k2, newVal)],
        value |-> newVal]

TableGetOrSet(ts, c, k1, k2, newVal) ==
  IF k1 \in DOMAIN ts[c].table
  THEN IF k2 \in DOMAIN ts[c].table[k1]
       THEN [tables |-> ts, value |-> ts[c].table[k1][k2]]
       ELSE IF ts[c].shadow # Nil /\ TableContains(ts, ts[c].shadow, k1, k2)
       THEN [tables |-> ts, value |-> TableShadowValue(ts, c, k1, k2)]
       ELSE [tables |-> [ts EXCEPT ![c].table[k1] = MapPut(@, k2, newVal)],
             value |-> newVal]
  ELSE IF ts[c].shadow # Nil /\ TableContains(ts, ts[c].shadow, k1, k2)
  THEN [tables |-> ts, value |-> TableShadowValue(ts, c, k1, k2)]
  ELSE [tables |-> [ts EXCEPT ![c].table = TablePut(@, k1, k2, newVal)],
        value |-> newVal]

\* Set that replaces the whole k1 branch by the one new entry
TableSetReplacesBranch(ts, c, k1, k2, newVal) ==
  [tables |-> [ts EXCEPT ![c].table = MapPut(@, k1, MapPut(EmptyMap, k2, newVal))],
   err |-> NoErr]

TableSet(ts, c, k1, k2, newVal) ==
  [tables |-> [ts EXCEPT ![c].table = TablePut(@, k1, k2, newVal)],
   err |-> NoErr]

TableShadowCopy(ts, c) ==
  Append(ts, [NewTable EXCEPT !.shadow = c])

\* the k1 branches a run of Set calls over the pairs of src creates
SetBranches(src) == {k1 \in DOMAIN src : DOMAIN src[k1] # {}}

\* ToMap that assigns whole local branches over the shadow's
TableOverlayBranch(base, over) ==
  [k1 \in SetBranches(base) \cup SetBranches(over) |->
     IF k1 \in SetBranches(over) THEN over[k1] ELSE base[k1]]

\* m after m.Set(k1, k2, v) for every pair of base and then of over
TableOverlay(base, over) ==
  [k1 \in SetBranches(base) \cup SetBranches(over) |->
     [k2 \in (IF k1 \in DOMAIN base THEN DOMAIN base[k1] ELSE {})
               \cup (IF k1 \in DOMAIN over THEN DOMAIN over[k1] ELSE {}) |->
        IF k1 \in DOMAIN over /\ k2 \in DOMAIN over[k1]
        THEN over[k1][k2] ELSE base[k1][k2]]]

RECURSIVE TableToMap(_, _)
TableToMap(ts, c) ==
  IF ts[c].shadow = Nil THEN ts[c].table
  ELSE TableOverlay(TableToMap(ts, ts[c].shadow), ts[c].table)

\* ---- the operations as steps of a client -------------------------------
Call(op, c, k1, k2, arg) ==
  [op |-> op, c |-> c, k1 |-> k1, k2 |-> k2, arg |-> arg,
   value |-> Zero, err |-> NoErr, found |-> FALSE, result |-> EmptyMap]

Step(ms, ts, rec) ==
  /\ nops < MaxOps
  /\ maps' = ms
  /\ tables' = ts
  /\ last' = rec
  /\ pre' = [maps |-> maps, tables |-> tables]
  /\ nops' = nops + 1
  /\ UNCHANGED <<th, locks, fatal, start>>

MapIds == 1..Len(maps)
TableIds == 1..Len(tables)

\* a goroutine that is in no call
Idle ==
  [pc |-> "idle", op |-> "none", c |-> Nil, sub |-> "none", cur |-> Nil,
   held |-> <<>>, found |-> FALSE, value |-> Zero, err |-> NoErr,
   ref |-> Nil, result |-> EmptyMap, wrote |-> FALSE, seen |-> {},
   unlocked |-> FALSE, edited |-> FALSE, touched |-> Nil]

Init ==
  /\ \/ maps = <<NewMap>> /\ tables = <<>>
     \/ maps = <<>> /\ tables = <<NewTable>>
  /\ last = Call("New", 1, 0, 0, Zero)
  /\ pre = [maps |-> maps, tables |-> tables]
  /\ nops = 0
  /\ th = [t \in Threads |-> Idle]
  /\ locks = <<>>
  /\ fatal = FALSE
  /\ start = [maps |-> maps, tables |-> tables]

DoMapAdd ==
  \E c \in MapIds, k \in Keys, v \in Values :
    LET r == MapAdd(maps, c, k, v)
    IN Step(r.maps, tables, [Call("Map.Add", c, k, 0, v) EXCEPT !.err = r.err])

DoMapContains ==
  \E c \in MapIds, k \in Keys :
    Step(maps, tables,
         [Call("Map.Contains", c, k, 0, Zero) EXCEPT
            !.found = MapContains(maps, c, k)])

DoMapDelete ==
  \E c \in MapIds, k \in Keys :
    LET r == MapDelete(maps, c, k)
    IN Step(r.maps, tables,
            [Call("Map.Delete", c, k, 0, Zero) EXCEPT !.err = r.err])

DoMapGet ==
  \E c \in MapIds, k \in Keys :
    LET r == MapGet(maps, c, k)
    IN Step(maps, tables,
            [Call("Map.Get", c, k, 0, Zero) EXCEPT
               !.value = r.value, !.err = r.err])

DoMapGetOrDefault ==
  \E c \in MapIds, k \in Keys, def \in Values :
    Step(maps, tables,
         [Call("Map.GetOrDefault", c, k, 0, def) EXCEPT
            !.value = MapGetOrDefault(maps, c, k, def)])

DoMapGetOrSet ==
  \E c \in MapIds, k \in Keys, v \in Values :
    LET r == MapGetOrSet(maps, c, k, v)
    IN Step(r.maps, tables,
            [Call("Map.GetOrSet", c, k, 0, v) EXCEPT !.value = r.value])

DoMapSet ==
  \E c \in MapIds, k \in Keys, v \in Values :
    LET r == MapSet(maps, c, k, v)
    IN Step(r.maps, tables, [Call("Map.Set", c, k, 0, v) EXCEPT !.err = r.err])

DoMapShadowCopy ==
  \E c \in MapIds :
    /\ Len(maps) < MaxContainers
    /\ Step(MapShadowCopy(maps, c), tables, Call("Map.ShadowCopy", c, 0, 0, Zero))

DoMapToMap ==
  \E c \in MapIds :
    Step(maps, tables,
         [Call("Map.ToMap", c, 0, 0, Zero) EXCEPT !.result = MapToMap(maps, c)])

DoTableAdd ==
  \E c \in TableIds, k1 \in Keys, k2 \in Keys, v \in Values :
    LET r == TableAdd(tables, c, k1, k2, v)
    IN Step(maps, r.tables,
            [Call("Table.Add", c, k1, k2, v) EXCEPT !.err = r.err])

DoTableContains ==
  \E c \in TableIds, k1 \in Keys, k2 \in Keys :
    Step(maps, tables,
         [Call("Table.Contains", c, k1, k2, Zero) EXCEPT
            !.found = TableContains(tables, c, k1, k2)])

DoTableDelete ==
  \E c \in TableIds, k1 \in Keys, k2 \in Keys :
    LET r == TableDelete(tables, c, k1, k2)
    IN Step(maps, r.tables,
            [Call("Table.Delete", c, k1, k2, Zero) EXCEPT !.err = r.err])

DoTableGet ==
  \E c \in TableIds, k1 \in Keys, k2 \in Keys :
    LET r == TableGet(tables, c, k1, k2)
    IN Step(maps, tables,
            [Call("Table.Get", c, k1, k2, Zero) EXCEPT
               !.value = r.value, !.err = r.err])

DoTableGetOrDefault ==
  \E c \in TableIds, k1 \in Keys, k2 \in Keys, def \in Values :
    Step(maps, tables,
         [Call("Table.GetOrDefault", c, k1, k2, def) EXCEPT
            !.value = TableGetOrDefault(tables, c, k1, k2, def)])

DoTableGetOrSet ==
  \E c \in TableIds, k1 \in Keys, k2 \in Keys, v \in Values :
    LET r == TableGetOrSet(tables, c, k1, k2, v)
    IN Step(maps, r.tables,
            [Call("Table.GetOrSet", c, k1, k2, v) EXCEPT !.value = r.value])

DoTableSet ==
  \E c \in TableIds, k1 \in Keys, k2 \in Keys, v \in Values :
    LET r == TableSet(tables, c, k1, k2, v)
    IN Step(maps, r.tables,
            [Call("Table.Set", c, k1, k2, v) EXCEPT !.err = r.err])

DoTableShadowCopy ==
  \E c \in TableIds :
    /\ Len(tables) < MaxContainers
    /\ Step(maps, TableShadowCopy(tables, c),
            Call("Table.ShadowCopy", c, 0, 0, Zero))

DoTableToMap ==
  \E c \in TableIds :
    Step(maps, tables,
         [Call("Table.ToMap", c, 0, 0, Zero) EXCEPT
            !.result = TableToMap(tables, c)])

Next ==
  \/ DoMapAdd
  \/ DoMapContains
  \/ DoMapDelete
  \/ DoMapGet
  \/ DoMapGetOrDefault
  \/ DoMapGetOrSet
  \/ DoMapSet
  \/ DoMapShadowCopy
  \/ DoMapToMap
  \/ DoTableAdd
  \/ DoTableContains
  \/ DoTableDelete
  \/ DoTableGet
  \/ DoTableGetOrDefault
  \/ DoTableGetOrSet
  \/ DoTableSet
  \/ DoTableShadowCopy
  \/ DoTableToMap

Spec == Init /\ [][Next]_vars

\* ---- vocabulary of the properties ---------------------------------------
IsNotFound(err) == err \in {TableKeysNotFound, MapKeyNotFound}
IsDuplicate(err) == err \in {TableDuplicateKeys, MapDuplicateKey}

MinOf(S) == CHOOSE i \in S : \A j \in S : i <= j

\* the receiver, its shadow, the shadow's shadow, ... down to the root
RECURSIVE ChainOf(_, _)
ChainOf(heap, c) ==
  IF heap[c].shadow = Nil THEN <<c>>
  ELSE <<c>> \o ChainOf(heap, heap[c].shadow)

\* the nearest layer of c's chain that holds the key, Nil when none does
MapLayer(ms, c, k) ==
  LET ch == ChainOf(ms, c)
      H == {i \in 1..Len(ch) : k \in DOMAIN ms[ch[i]].table}
  IN IF H = {} THEN Nil ELSE ch[MinOf(H)]

TableLayer(ts, c, k1, k2) ==
  LET ch == ChainOf(ts, c)
      H == {i \in 1..Len(ch) :
              /\ k1 \in DOMAIN ts[ch[i]].table
              /\ k2 \in DOMAIN ts[ch[i]].table[k1]}
  IN IF H = {} THEN Nil ELSE ch[MinOf(H)]

\* the strict ancestors of c
Ancestors(heap, c) ==
  {ChainOf(heap, c)[i] : i \in 2..Len(ChainOf(heap, c))}

IsMapOp == last.op \in {"Map.Add", "Map.Contains", "Map.Delete", "Map.Get",
                        "Map.GetOrDefault", "Map.GetOrSet", "Map.Set",
                        "Map.ShadowCopy", "Map.ToMap"}
IsTableOp == last.op \in {"Table.Add", "Table.Contains", "Table.Delete",
                          "Table.Get", "Table.GetOrDefault", "Table.GetOrSet",
                          "Table.Set", "Table.ShadowCopy", "Table.ToMap"}

\* ---- C1 -----------------------------------------------------------------
MapReadsResolve(c, k) ==
  LET n == MapLayer(maps, c, k)
      g == MapGet(maps, c, k)
  IN IF n # Nil
     THEN /\ g = [value |-> maps[n].table[k], err |-> NoErr]
          /\ MapContains(maps, c, k)
          /\ \A def \in Values :
               MapGetOrDefault(maps, c, k, def) = maps[n].table[k]
     ELSE /\ IsNotFound(g.err)
          /\ ~MapContains(maps, c, k)
          /\ \A def \in Values : MapGetOrDefault(maps, c, k, def) = def

TableReadsResolve(c, k1, k2) ==
  LET n == TableLayer(tables, c, k1, k2)
      g == TableGet(tables, c, k1, k2)
  IN IF n # Nil
     THEN /\ g = [value |-> tables[n].table[k1][k2], err |-> NoErr]
          /\ TableContains(tables, c, k1, k2)
          /\ \A def \in Values :
               TableGetOrDefault(tables, c, k1, k2, def) = tables[n].table[k1][k2]
     ELSE /\ IsNotFound(g.err)
          /\ ~TableContains(tables, c, k1, k2)
          /\ \A def \in Values :
               TableGetOrDefault(tables, c, k1, k2, def) = def

\* C1: Get, Contains and GetOrDefault on a Map or Table resolve a key at the
\* nearest layer of the shadow chain that holds it (local first, then the
\* shadow, then the shadow's shadow): Get returns that layer's value with
\* no error, Contains is true and GetOrDefault returns the same value; when
\* no layer holds the key Get fails with the not-found error, Contains is
\* false and GetOrDefault returns def.  What the read operations returned is
\* what this resolution gives.
C1_ReadResolution ==
  /\ \A c \in MapIds, k \in Keys : MapReadsResolve(c, k)
  /\ \A c \in TableIds, k1 \in Keys, k2 \in Keys : TableReadsResolve(c, k1, k2)
  /\ last.op = "Map.Get" =>
       LET n == MapLayer(maps, last.c, last.k1)
       IN IF n # Nil
          THEN last.err = NoErr /\ last.value = maps[n].table[last.k1]
          ELSE IsNotFound(last.err)
  /\ last.op = "Map.Contains" =>
       (last.found <=> MapLayer(maps, last.c, last.k1) # Nil)
  /\ last.op = "Map.GetOrDefault" =>
       LET n == MapLayer(maps, last.c, last.k1)
       IN last.value = IF n # Nil THEN maps[n].table[last.k1] ELSE last.arg
  /\ last.op = "Table.Get" =>
       LET n == TableLayer(tables, last.c, last.k1, last.k2)
       IN IF n # Nil
          THEN last.err = NoErr /\ last.value = tables[n].table[last.k1][last.k2]
          ELSE IsNotFound(last.err)
  /\ last.op = "Table.Contains" =>
       (last.found <=> TableLayer(tables, last.c, last.k1, last.k2) # Nil)
  /\ last.op = "Table.GetOrDefault" =>
       LET n == TableLayer(tables, last.c, last.k1, last.k2)
       IN last.value = IF n # Nil THEN tables[n].table[last.k1][last.k2]
                       ELSE last.arg

\* a Get on a shadow copy that was answered by a layer of its shadow chain
C1_Witness ==
  /\ last.op = "Map.Get"
  /\ last.err = NoErr
  /\ maps[last.c].shadow # Nil
  /\ MapLayer(maps, last.c, last.k1) \notin {Nil, last.c}

\* ---- C2 -----------------------------------------------------------------
\* C2: whatever operation ran last on a container, succeeding or failing,
\* every other container of the heap - in particular every ancestor in the
\* receiver's shadow chain - has the local storage and the shadow reference
\* it had before the call; only the receiver's local storage may differ, and
\* the receiver's shadow reference is unchanged.
C2_ShadowNeverMutated ==
  /\ IsMapOp =>
       /\ Len(maps) >= Len(pre.maps)
       /\ \A d \in 1..Len(pre.maps) :
            /\ maps[d].shadow = pre.maps[d].shadow
            /\ d # last.c => maps[d] = pre.maps[d]
  /\ IsTableOp =>
       /\ Len(tables) >= Len(pre.tables)
       /\ \A d \in 1..Len(pre.tables) :
            /\ tables[d].shadow = pre.tables[d].shadow
            /\ d # last.c => tables[d] = pre.tables[d]

\* a Delete on a child whose key lives only in the shadow
C2_Witness ==
  /\ last.op = "Map.Delete"
  /\ maps[last.c].shadow # Nil
  /\ last.k1 \notin DOMAIN pre.maps[last.c].table
  /\ MapContains(pre.maps, pre.maps[last.c].shadow, last.k1)

\* ---- C3 -----------------------------------------------------------------
MapDeleteOutcome ==
  LET c == last.c
      k == last.k1
      n == MapLayer(pre.maps, c, k)
  IN IF n = c
     THEN /\ last.err = NoErr
          /\ maps[c].table = [x \in DOMAIN pre.maps[c].table \ {k} |->
                                pre.maps[c].table[x]]
     ELSE IF n # Nil
     THEN /\ last.err = ErrDeleteFromShadow
          /\ ~IsNotFound(last.err)
          /\ maps = pre.maps
          /\ MapGet(maps, c, k) = [value |-> pre.maps[n].table[k], err |-> NoErr]
          /\ MapGet(maps, maps[c].shadow, k)
               = [value |-> pre.maps[n].table[k], err |-> NoErr]
     ELSE /\ IsNotFound(last.err)
          /\ maps = pre.maps

TableDeleteOutcome ==
  LET c == last.c
      k1 == last.k1
      k2 == last.k2
      n == TableLayer(pre.tables, c, k1, k2)
  IN IF n = c
     THEN /\ last.err = NoErr
          /\ ~TableHasLocal(tables[c].table, k1, k2)
          /\ \A x \in Keys, y \in Keys :
               <<x, y>> # <<k1, k2>> =>
                 /\ TableHasLocal(tables[c].table, x, y)
                      <=> TableHasLocal(pre.tables[c].table, x, y)
                 /\ TableHasLocal(tables[c].table, x, y) =>
                      tables[c].table[x][y] = pre.tables[c].table[x][y]
     ELSE IF n # Nil
     THEN /\ last.err = ErrDeleteFromShadow
          /\ ~IsNotFound(last.err)
          /\ tables = pre.tables
          /\ TableGet(tables, c, k1, k2)
               = [value |-> pre.tables[n].table[k1][k2], err |-> NoErr]
          /\ TableGet(tables, tables[c].shadow, k1, k2)
               = [value |-> pre.tables[n].table[k1][k2], err |-> NoErr]
     ELSE /\ IsNotFound(last.err)
          /\ tables = pre.tables

\* C3: Delete has exactly three outcomes on a Map and on a Table.  Key in
\* the receiver's local storage: it is removed from local (nothing else of
\* local changes) and Delete returns no error.  Key absent from local but
\* held by the shadow chain: Delete fails with the cannot-delete-from-shadow
\* error, which is not the not-found error, the heap is unchanged and Get of
\* the key on the child and on its shadow both still return the shadow
\* chain's value.  Key absent from the whole chain: Delete fails with the
\* not-found error and the heap is unchanged.
C3_DeleteOutcomes ==
  /\ last.op = "Map.Delete" => MapDeleteOutcome
  /\ last.op = "Table.Delete" => TableDeleteOutcome

\* a Table.Delete of a pair held only by the shadow chain
C3_Witness ==
  /\ last.op = "Table.Delete"
  /\ last.err = ErrDeleteFromShadow
  /\ TableLayer(tables, last.c, last.k1, last.k2) \notin {Nil, last.c}

\* ---- C4 -----------------------------------------------------------------
MapAddOutcome ==
  LET c == last.c
      k == last.k1
      sh == pre.maps[c].shadow
  IN /\ IsDuplicate(last.err) <=> k \in DOMAIN pre.maps[c].table
     /\ last.err # NoErr => IsDuplicate(last.err)
     /\ last.err = NoErr =>
          /\ MapGet(maps, c, k) = [value |-> last.arg, err |-> NoErr]
          /\ k \in DOMAIN maps[c].table
          /\ sh # Nil => MapGet(maps, sh, k) = MapGet(pre.maps, sh, k)
          /\ \A v \in Values : IsDuplicate(MapAdd(maps, c, k, v).err)

TableAddOutcome ==
  LET c == last.c
      k1 == last.k1
      k2 == last.k2
      sh == pre.tables[c].shadow
  IN /\ IsDuplicate(last.err) <=> TableHasLocal(pre.tables[c].table, k1, k2)
     /\ last.err # NoErr => IsDuplicate(last.err)
     /\ last.err = NoErr =>
          /\ TableGet(tables, c, k1, k2) = [value |-> last.arg, err |-> NoErr]
          /\ TableHasLocal(tables[c].table, k1, k2)
          /\ sh # Nil =>
               TableGet(tables, sh, k1, k2) = TableGet(pre.tables, sh, k1, k2)
          /\ \A v \in Values : IsDuplicate(TableAdd(tables, c, k1, k2, v).err)

\* C4: Add on a Map or a Table fails with the duplicate-key error exactly
\* when the key is already in the receiver's local storage, whatever the
\* shadow chain holds.  A successful Add (also of a key held only by the
\* shadow chain) puts the key in local, Get on the receiver then returns
\* the added value while Get on the shadow returns what it returned before,
\* and a further Add of the same key fails with the duplicate-key error.
C4_AddLocalOnly ==
  /\ last.op = "Map.Add" => MapAddOutcome
  /\ last.op = "Table.Add" => TableAddOutcome

\* a successful Map.Add of a key that the shadow chain already holds
C4_Witness ==
  /\ last.op = "Map.Add"
  /\ last.err = NoErr
  /\ pre.maps[last.c].shadow # Nil
  /\ MapContains(pre.maps, pre.maps[last.c].shadow, last.k1)
  /\ MapGet(maps, maps[last.c].shadow, last.k1).value # last.arg

\* ---- C5 -----------------------------------------------------------------
\* C5: Map.GetOrSet(k, def) on any Map, a root or a shadow copy, whose
\* local storage and whole shadow chain lack k stores def in the receiver's
\* local storage and returns def; afterwards Get(k) returns def and a
\* GetOrSet(k, def2) with any def2 returns def again without writing.
C5_MapGetOrSetWritesDefault ==
  (last.op = "Map.GetOrSet" /\ MapLayer(pre.maps, last.c, last.k1) = Nil) =>
     /\ last.value = last.arg
     /\ last.k1 \in DOMAIN maps[last.c].table
     /\ maps[last.c].table[last.k1] = last.arg
     /\ MapGet(maps, last.c, last.k1) = [value |-> last.arg, err |-> NoErr]
     /\ \A def2 \in Values :
          MapGetOrSet(maps, last.c, last.k1, def2)
            = [maps |-> maps, value |-> last.arg]

\* ---- C6 -----------------------------------------------------------------
\* C6: GetOrSet on a Map or a Table is read-through.  Key absent from the
\* receiver's local storage but held by its shadow chain: the call returns
\* the value of the nearest layer that holds it and the whole heap, the
\* receiver's local storage included, is as before (for a Table no k1
\* branch appears and an existing k1 branch gains no k2 entry).  Key in
\* local: the call returns the local value and the heap is as before.
C6_GetOrSetReadThrough ==
  /\ last.op = "Map.GetOrSet" =>
       LET n == MapLayer(pre.maps, last.c, last.k1)
       IN n # Nil =>
            /\ last.value = pre.maps[n].table[last.k1]
            /\ maps = pre.maps
  /\ last.op = "Table.GetOrSet" =>
       LET n == TableLayer(pre.tables, last.c, last.k1, last.k2)
       IN n # Nil =>
            /\ last.value = pre.tables[n].table[last.k1][last.k2]
            /\ tables = pre.tables

\* a Table.GetOrSet answered by the shadow chain with a value other than
\* the offered one
C6_Witness ==
  /\ last.op = "Table.GetOrSet"
  /\ TableLayer(pre.tables, last.c, last.k1, last.k2) \notin {Nil, last.c}
  /\ last.value # last.arg

\* ---- C7 -----------------------------------------------------------------
\* C7: Table.GetOrSet(k1, k2, newVal) on a root or a shadow copy whose
\* local storage and whole shadow chain lack (k1, k2) returns newVal and
\* writes it: under the existing local k1 branch when there is one, under
\* a newly created local k1 branch otherwise.  Every other entry and
\* branch of local, and every other container, is as before.
C7_TableGetOrSetWrites ==
  (last.op = "Table.GetOrSet"
     /\ TableLayer(pre.tables, last.c, last.k1, last.k2) = Nil) =>
    LET c == last.c
        old == pre.tables[c].table
        new == tables[c].table
    IN /\ last.value = last.arg
       /\ DOMAIN new = DOMAIN old \cup {last.k1}
       /\ \A x \in DOMAIN old : x # last.k1 => new[x] = old[x]
       /\ DOMAIN new[last.k1]
            = (IF last.k1 \in DOMAIN old THEN DOMAIN old[last.k1] ELSE {})
                \cup {last.k2}
       /\ \A y \in DOMAIN new[last.k1] :
            new[last.k1][y] = IF y = last.k2 THEN last.arg ELSE old[last.k1][y]
       /\ \A d \in 1..Len(pre.tables) : d # c => tables[d] = pre.tables[d]
       /\ tables[c].shadow = pre.tables[c].shadow

\* a Table.GetOrSet on a shadow copy that wrote under an existing k1 branch
C7_Witness ==
  /\ last.op = "Table.GetOrSet"
  /\ pre.tables[last.c].shadow # Nil
  /\ last.k1 \in DOMAIN pre.tables[last.c].table
  /\ TableLayer(pre.tables, last.c, last.k1, last.k2) = Nil
  /\ tables[last.c].table[last.k1][last.k2] = last.arg

\* ---- C8 -----------------------------------------------------------------
MapFlatLocalWins(ms, c, r) ==
  LET t == ms[c].table
      s == MapToMap(ms, ms[c].shadow)
  IN /\ DOMAIN r = DOMAIN t \cup DOMAIN s
     /\ \A k \in DOMAIN r : r[k] = IF k \in DOMAIN t THEN t[k] ELSE s[k]

\* C8: for a Map with a shadow, ToMap returns a mapping whose key set is
\* the union of local's keys and the flattened shadow's keys, and every
\* key that local holds maps to local's value (the nearer layer wins).
C8_MapToMapLocalWins ==
  /\ \A c \in MapIds :
       maps[c].shadow # Nil => MapFlatLocalWins(maps, c, MapToMap(maps, c))
  /\ (last.op = "Map.ToMap" /\ maps[last.c].shadow # Nil) =>
       MapFlatLocalWins(maps, last.c, last.result)

\* ---- C9 -----------------------------------------------------------------
HasPair(r, k1, k2) == k1 \in DOMAIN r /\ k2 \in DOMAIN r[k1]

TableFlatPairwise(ts, c, r) ==
  LET t == ts[c].table
      s == TableToMap(ts, ts[c].shadow)
  IN \A k1 \in Keys, k2 \in Keys :
       /\ HasPair(r, k1, k2) <=> (HasPair(t, k1, k2) \/ HasPair(s, k1, k2))
       /\ HasPair(r, k1, k2) =>
            r[k1][k2] = IF HasPair(t, k1, k2) THEN t[k1][k2] ELSE s[k1][k2]

\* C9: for a Table with a shadow, ToMap returns the flattened shadow
\* overlaid with local pair by pair: (k1, k2) is in the result exactly
\* when it is in local or in the flattened shadow, with local's value when
\* local holds the pair and the shadow's otherwise; so a k1 branch present
\* in both holds the union of their k2 entries and no shadow-only pair
\* under a locally present k1 is lost.
C9_TableToMapPairwise ==
  /\ \A c \in TableIds :
       tables[c].shadow # Nil =>
         TableFlatPairwise(tables, c, TableToMap(tables, c))
  /\ (last.op = "Table.ToMap" /\ tables[last.c].shadow # Nil) =>
       TableFlatPairwise(tables, last.c, last.result)

\* a shadow copy and its shadow both have a branch k1, the shadow holds a
\* pair under it that local lacks, and the flattened copy has both pairs
C9_Witness ==
  \E c \in TableIds, k1 \in Keys, k2 \in Keys, j2 \in Keys :
    /\ tables[c].shadow # Nil
    /\ HasPair(tables[c].table, k1, k2)
    /\ ~HasPair(tables[c].table, k1, j2)
    /\ HasPair(TableToMap(tables, tables[c].shadow), k1, j2)
    /\ HasPair(TableToMap(tables, c), k1, k2)
    /\ HasPair(TableToMap(tables, c), k1, j2)

\* ---- C10 ----------------------------------------------------------------
\* C10: a shadow copy with no local writes has the same ToMap result as
\* the container it was copied from (same keys, same nested keys, same
\* values), whatever Add/Set/Delete/GetOrSet sequence built the original.
C10_ShadowCopyToMapEqual ==
  /\ \A c \in MapIds :
       (maps[c].shadow # Nil /\ maps[c].table = EmptyMap) =>
         MapToMap(maps, c) = MapToMap(maps, maps[c].shadow)
  /\ \A c \in TableIds :
       (tables[c].shadow # Nil /\ tables[c].table = EmptyMap) =>
         TableToMap(tables, c) = TableToMap(tables, tables[c].shadow)

\* ======== goroutines, locks and the steps of each operation ==============
\* ---- sync.RWMutex -------------------------------------------------------
\* w: the goroutine that called Lock (holding, or waiting for the readers
\*    to leave); r: the goroutines holding the read lock
Unlocked == [w |-> Nil, r |-> {}]

\* RLock returns at once unless a writer holds the lock or waits for it
CanRLock(lk, x) == lk[x].w = Nil

\* Lock excludes the other writers first ...
CanLock(lk, x) == lk[x].w = Nil

\* ... and is granted when the readers have left
LockFree(lk, x) == lk[x].r = {}

Lock(lk, x, t) == [lk EXCEPT ![x].w = t]

Unlock(lk, x, t) == [lk EXCEPT ![x].w = Nil]

RUnlock(lk, S, t) ==
  [x \in DOMAIN lk |-> IF x \in S THEN [lk[x] EXCEPT !.r = @ \ {t}] ELSE lk[x]]

\* a read that lets go of the lock it holds before it locks the shadow
EnterShadowReleasing(lk, held, x, t) ==
  LET n == Len(held)
      drop == n > 0 /\ t \in lk[held[n]].r
      rest == IF drop THEN SubSeq(held, 1, n - 1) ELSE held
      lk1 == IF drop THEN RUnlock(lk, {held[n]}, t) ELSE lk
  IN [locks |-> [lk1 EXCEPT ![x].r = @ \cup {t}], held |-> Append(rest, x)]

\* t.RLock() of container x followed by defer t.RUnlock(): the locks of
\* the calling frames stay held
EnterShadow(lk, held, x, t) ==
  [locks |-> [lk EXCEPT ![x].r = @ \cup {t}], held |-> Append(held, x)]

\* ---- the run ------------------------------------------------------------
IsMapRun == maps # <<>>
Heap == IF IsMapRun THEN maps ELSE tables

\* the key (for a Table the pair HotKey, HotKey) all goroutines work on
HotKey == MinOf(Keys)

\* every goroutine passes a value of its own
ArgOf(t) == t

\* the value layer x holds when the goroutines start
InitVal(x) == MaxThreads + x

LocalHas(x) ==
  IF IsMapRun THEN HotKey \in DOMAIN maps[x].table
  ELSE TableHasLocal(tables[x].table, HotKey, HotKey)

LocalVal(x) ==
  IF IsMapRun THEN maps[x].table[HotKey] ELSE tables[x].table[HotKey][HotKey]

StoreHot(c, v) ==
  IF IsMapRun THEN [maps EXCEPT ![c].table = MapPut(@, HotKey, v)]
  ELSE [tables EXCEPT ![c].table = TablePut(@, HotKey, HotKey, v)]

ReadOps == {"Contains", "Get", "GetOrDefault", "ToMap"}
WriteOps == {"Add", "Delete", "GetOrSet", "Set"}

HoldsLock(t, x) ==
  \/ t \in locks[x].r
  \/ locks[x].w = t /\ th[t].pc # "pending"

\* what the shadow of c resolves the key to
ShadowValues(heap, c) ==
  IF heap[c].shadow = Nil THEN {}
  ELSE LET g == IF IsMapRun THEN MapGet(heap, heap[c].shadow, HotKey)
                ELSE TableGet(heap, heap[c].shadow, HotKey, HotKey)
       IN IF g.err = NoErr THEN {g.value} ELSE {}

\* history: the values the shadow of the receiver held during a
\* Table.GetOrSet call
Track(f, heap) ==
  [u \in Threads |->
     IF f[u].op = "GetOrSet" /\ ~IsMapRun /\ f[u].pc \notin {"idle", "done"}
     THEN [f[u] EXCEPT !.seen = @ \cup ShadowValues(heap, f[u].c)]
     ELSE f[u]]

\* one step of goroutine t; nothing runs once the process has aborted
Commit(t, rec, heap, lk) ==
  /\ fatal = FALSE
  /\ th' = Track([th EXCEPT ![t] = rec], heap)
  /\ IF IsMapRun THEN maps' = heap /\ tables' = tables
     ELSE tables' = heap /\ maps' = maps
  /\ locks' = lk
  /\ UNCHANGED <<last, pre, nops, fatal, start>>

\* the local tables a chain layer can start with
LayerTables(x, isMap) ==
  IF isMap THEN {EmptyMap, MapPut(EmptyMap, HotKey, InitVal(x))}
  ELSE {EmptyMap, MapPut(EmptyMap, HotKey, EmptyMap),
        TablePut(EmptyMap, HotKey, HotKey, InitVal(x))}

\* a chain of MaxDepth containers: 1 is the root, x + 1 a shadow copy of x
Chains(isMap) ==
  {[x \in 1..MaxDepth |-> [table |-> f[x],
                          shadow |-> IF x = 1 THEN Nil ELSE x - 1]] :
     f \in {g \in [1..MaxDepth -> UNION {LayerTables(x, isMap) : x \in 1..MaxDepth}] :
              \A x \in 1..MaxDepth : g[x] \in LayerTables(x, isMap)}}

ConcInit ==
  /\ \/ maps \in Chains(TRUE) /\ tables = <<>>
     \/ maps = <<>> /\ tables \in Chains(FALSE)
  /\ last = Call("New", 1, 0, 0, Zero)
  /\ pre = [maps |-> maps, tables |-> tables]
  /\ nops = 0
  /\ th = [t \in Threads |-> Idle]
  /\ locks = [x \in 1..MaxDepth |-> Unlocked]
  /\ fatal = FALSE
  /\ start = [maps |-> maps, tables |-> tables]

\* ---- what each operation does once it holds the receiver's lock ---------
\* Each gives the goroutine's record and the heap when it next needs a lock.
BodyAdd(t) ==
  LET me == th[t]
      r == IF IsMapRun THEN MapAdd(maps, me.c, HotKey, ArgOf(t))
           ELSE TableAdd(tables, me.c, HotKey, HotKey, ArgOf(t))
  IN [rec |-> [me EXCEPT !.pc = "exit", !.held = <<me.c>>, !.err = r.err,
                         !.wrote = (r.err = NoErr)],
      heap |-> IF IsMapRun THEN r.maps ELSE r.tables]

BodySet(t) ==
  LET me == th[t]
  IN [rec |-> [me EXCEPT !.pc = "exit", !.held = <<me.c>>, !.wrote = TRUE],
      heap |-> StoreHot(me.c, ArgOf(t))]

\* the nested call into the shadow starts with the receiver's lock held
CallShadow(me, method) ==
  [me EXCEPT !.pc = "sub", !.sub = method, !.cur = Heap[me.c].shadow,
             !.held = <<me.c>>]

BodyDelete(t) ==
  LET me == th[t]
  IN IF LocalHas(me.c)
     THEN [rec |-> [me EXCEPT !.pc = "exit", !.held = <<me.c>>,
                              !.wrote = TRUE],
           heap |-> IF IsMapRun
                    THEN [maps EXCEPT ![me.c].table = MapRemove(@, HotKey)]
                    ELSE [tables EXCEPT
                            ![me.c].table = TableRemove(@, HotKey, HotKey)]]
     ELSE IF Heap[me.c].shadow # Nil
     THEN [rec |-> CallShadow(me, "Contains"), heap |-> Heap]
     ELSE [rec |-> [me EXCEPT !.pc = "exit", !.held = <<me.c>>,
                              !.err = TableKeysNotFound],
           heap |-> Heap]

\* Delete after shadow.Contains has returned
ResumeDelete(t) ==
  [rec |-> [th[t] EXCEPT !.pc = "exit",
                         !.err = IF th[t].found THEN ErrDeleteFromShadow
                                 ELSE TableKeysNotFound],
   heap |-> Heap]

\* builtinMap asks the shadow with Get, builtinTable first with Contains
BodyGetOrSet(t) ==
  LET me == th[t]
  IN IF LocalHas(me.c)
     THEN [rec |-> [me EXCEPT !.pc = "exit", !.held = <<me.c>>,
                              !.value = LocalVal(me.c)],
           heap |-> Heap]
     ELSE IF Heap[me.c].shadow # Nil
     THEN [rec |-> CallShadow(me, IF IsMapRun THEN "Get" ELSE "Contains"),
           heap |-> Heap]
     ELSE [rec |-> [me EXCEPT !.pc = "exit", !.held = <<me.c>>,
                              !.value = ArgOf(t), !.wrote = TRUE],
           heap |-> StoreHot(me.c, ArgOf(t))]

\* GetOrSet after the nested call into the shadow has returned
ResumeGetOrSet(t) ==
  LET me == th[t]
  IN IF me.sub = "Contains"
     THEN IF me.found
          THEN [rec |-> CallShadow(me, "Get"), heap |-> Heap]
          ELSE [rec |-> [me EXCEPT !.pc = "exit", !.value = ArgOf(t),
                                   !.wrote = TRUE],
                heap |-> StoreHot(me.c, ArgOf(t))]
     ELSE [rec |-> [me EXCEPT !.pc = "exit", !.err = NoErr,
                              !.value = IF me.err = NoErr THEN me.value
                                        ELSE Zero],
           heap |-> Heap]

BodyOf(t) ==
  CASE th[t].op = "Add" -> BodyAdd(t)
    [] th[t].op = "Set" -> BodySet(t)
    [] th[t].op = "Delete" -> BodyDelete(t)
    [] th[t].op = "GetOrSet" -> BodyGetOrSet(t)

\* Contains, Get, GetOrDefault and ToMap at layer x, read lock held
ReadAt(me, x, def) ==
  IF me.sub = "ToMap"
  THEN IF Heap[x].shadow = Nil
       THEN [me EXCEPT !.pc = "ret", !.ref = x, !.result = Heap[x].table]
       ELSE [me EXCEPT !.cur = Heap[x].shadow]
  ELSE IF LocalHas(x)
  THEN [me EXCEPT !.pc = "ret", !.found = TRUE, !.value = LocalVal(x),
                  !.err = NoErr]
  ELSE IF Heap[x].shadow # Nil
  THEN [me EXCEPT !.cur = Heap[x].shadow]
  ELSE [me EXCEPT !.pc = "ret", !.found = FALSE,
                  !.value = IF me.sub = "GetOrDefault" THEN def ELSE Zero,
                  !.err = IF me.sub = "Get" THEN TableKeysNotFound ELSE NoErr]

\* builtinMap.ToMap: m holds the local entries, the shadow's are assigned over
MapAssignOver(local, s) ==
  [k \in (DOMAIN local) \cup (DOMAIN s) |->
     IF k \in DOMAIN s THEN s[k] ELSE local[k]]

\* another goroutine is inside a critical section of x in which it wrote
Racing(t, x) ==
  \E u \in Threads \ {t} :
    locks[x].w = u /\ th[u].pc = "exit" /\ th[u].wrote

\* ---- the steps ----------------------------------------------------------
\* a goroutine calls an operation
Invoke(t) ==
  \E op \in ReadOps \cup WriteOps, c \in DOMAIN Heap :
    /\ th[t].pc = "idle"
    /\ Commit(t, IF op \in ReadOps
                 THEN [Idle EXCEPT !.pc = "sub", !.op = op, !.c = c,
                                   !.sub = op, !.cur = c]
                 ELSE [Idle EXCEPT !.pc = "called", !.op = op, !.c = c],
              Heap, locks)

\* t.Lock() of the receiver: granted at once, or the goroutine waits
LockReceiver(t) ==
  LET me == th[t]
      lk == Lock(locks, me.c, t)
  IN /\ me.pc = "called"
     /\ CanLock(locks, me.c)
     /\ IF LockFree(locks, me.c)
        THEN Commit(t, BodyOf(t).rec, BodyOf(t).heap, lk)
        ELSE Commit(t, [me EXCEPT !.pc = "pending"], Heap, lk)

\* the readers have left: the waiting Lock() returns
LockGranted(t) ==
  /\ th[t].pc = "pending"
  /\ LockFree(locks, th[t].c)
  /\ Commit(t, BodyOf(t).rec, BodyOf(t).heap, locks)

\* t.RLock() of the next layer and the lookup in its local table
ReadLayer(t) ==
  LET me == th[t]
      e == EnterShadow(locks, me.held, me.cur, t)
  IN /\ me.pc = "sub"
     /\ CanRLock(locks, me.cur)
     /\ Commit(t, ReadAt([me EXCEPT !.held = e.held], me.cur, ArgOf(t)),
               Heap, e.locks)

\* Contains, Get, GetOrDefault return through the layers: the deferred
\* RUnlock of each runs
Unwind(t) ==
  LET me == th[t]
      mine == IF me.op \in WriteOps THEN <<me.c>> ELSE <<>>
      gone == {me.held[i] : i \in (Len(mine) + 1)..Len(me.held)}
  IN /\ me.pc = "ret"
     /\ me.sub # "ToMap"
     /\ Commit(t, [me EXCEPT !.held = mine,
                             !.pc = IF me.op \in WriteOps THEN "back"
                                    ELSE "done"],
               Heap, RUnlock(locks, gone, t))

\* Delete and GetOrSet go on after the nested call
Resume(t) ==
  LET r == IF th[t].op = "Delete" THEN ResumeDelete(t) ELSE ResumeGetOrSet(t)
  IN /\ th[t].pc = "back"
     /\ Commit(t, r.rec, r.heap, locks)

\* a write operation returns: the deferred Unlock runs
Return(t) ==
  /\ th[t].pc = "exit"
  /\ Commit(t, [th[t] EXCEPT !.pc = "done", !.held = <<>>], Heap,
            Unlock(locks, th[t].c, t))

\* ToMap of one layer returns: its deferred RUnlock runs
ToMapPop(t) ==
  LET me == th[t]
      n == Len(me.held)
  IN /\ me.pc = "ret"
     /\ me.sub = "ToMap"
     /\ Commit(t, [me EXCEPT !.held = SubSeq(me.held, 1, n - 1),
                             !.pc = IF n = 1 THEN "done" ELSE "merge"],
               Heap, RUnlock(locks, {me.held[n]}, t))

\* the calling layer ranges over what shadow.ToMap() returned and over its
\* local table.  What a root returned is the root's own map, read here
\* after the root's lock was released.
ToMapMerge(t) ==
  LET me == th[t]
      y == me.held[Len(me.held)]
      got == IF me.ref # Nil THEN Heap[me.ref].table ELSE me.result
      m == IF IsMapRun THEN MapAssignOver(Heap[y].table, got)
           ELSE TableOverlay(got, Heap[y].table)
  IN /\ me.pc = "merge"
     /\ Commit(t, [me EXCEPT !.pc = "ret", !.result = m, !.ref = Nil,
                             !.unlocked = @ \/ (me.ref # Nil
                                                /\ ~HoldsLock(t, me.ref))],
               Heap, locks)

\* ranging over the root's map while another goroutine writes it is a data
\* race: besides reading the map as it is (ToMapMerge) the runtime may stop
\* the process with "concurrent map iteration and map write"
ToMapFatal(t) ==
  /\ fatal = FALSE
  /\ th[t].pc = "merge"
  /\ th[t].ref # Nil
  /\ Racing(t, th[t].ref)
  /\ fatal' = TRUE
  /\ UNCHANGED <<maps, tables, last, pre, nops, th, locks, start>>

\* the caller of a finished ToMap stores an entry in the mapping it got,
\* while no operation is running
ClientModifies(t) ==
  LET me == th[t]
      put(m) == IF IsMapRun THEN MapPut(m, HotKey, ArgOf(t))
                ELSE TablePut(m, HotKey, HotKey, ArgOf(t))
  IN /\ me.pc = "done"
     /\ me.op = "ToMap"
     /\ ~me.edited
     /\ \A u \in Threads : th[u].pc \in {"idle", "done"}
     /\ Commit(t, [me EXCEPT !.edited = TRUE, !.result = put(@),
                             !.touched = me.ref],
               IF me.ref = Nil THEN Heap
               ELSE [Heap EXCEPT ![me.ref].table = put(@)],
               locks)

ThreadStep(t) ==
  \/ Invoke(t)
  \/ LockReceiver(t)
  \/ LockGranted(t)
  \/ ReadLayer(t)
  \/ Unwind(t)
  \/ Resume(t)
  \/ Return(t)
  \/ ToMapPop(t)
  \/ ToMapMerge(t)
  \/ ToMapFatal(t)
  \/ ClientModifies(t)

ConcNext == \E t \in Threads : ThreadStep(t)

ConcSpec == ConcInit /\ [][ConcNext]_vars

\* a goroutine in a call takes its next step when it can: the Go scheduler
\* runs every runnable goroutine, and a lock that is free and asked for is
\* handed over
Progress(t) ==
  \/ LockReceiver(t)
  \/ LockGranted(t)
  \/ ReadLayer(t)
  \/ Unwind(t)
  \/ Resume(t)
  \/ Return(t)
  \/ ToMapPop(t)
  \/ ToMapMerge(t)

FairConcSpec == ConcSpec /\ \A t \in Threads : WF_vars(Progress(t))

\* ---- vocabulary of the concurrency claims -------------------------------
InCall(t) == th[t].pc \notin {"idle", "done"}

Finished(t, op) == th[t].pc = "done" /\ th[t].op = op

Range(q) == {q[i] : i \in 1..Len(q)}

LocksHeldBy(t) == {x \in DOMAIN locks : HoldsLock(t, x)}

\* the lock goroutine t asks for next is withheld because of goroutine u
WaitsFor(t, u) ==
  /\ u # t
  /\ \/ th[t].pc = "called" /\ locks[th[t].c].w = u
     \/ th[t].pc = "sub" /\ locks[th[t].cur].w = u
     \/ th[t].pc = "pending" /\ u \in locks[th[t].c].r

NoWaitCycle ==
  \A S \in SUBSET Threads :
    S # {} => \E t \in S : \A u \in S : ~WaitsFor(t, u)

\* the mapping a finished ToMap handed to its caller, as the caller sees it
ReturnedMapping(t) ==
  IF th[t].ref # Nil THEN Heap[th[t].ref].table ELSE th[t].result

StartHeap == IF IsMapRun THEN start.maps ELSE start.tables

StartLayer(c) ==
  IF IsMapRun THEN MapLayer(start.maps, c, HotKey)
  ELSE TableLayer(start.tables, c, HotKey, HotKey)

ResolvedValue(c) ==
  IF IsMapRun THEN MapGet(maps, c, HotKey)
  ELSE TableGet(tables, c, HotKey, HotKey)

\* ---- C11 ----------------------------------------------------------------
\* C11: the mapping ToMap returned, of a Map or a Table with or without a
\* shadow, keeps the content it was returned with (plus what its holder
\* stored in it) whatever is later written to the container, and storing
\* into it changes no container's local storage.
C11_ToMapIsSnapshot ==
  \A t \in Threads :
    Finished(t, "ToMap") =>
      /\ ReturnedMapping(t) = th[t].result
      /\ th[t].touched = Nil

\* ---- C12 ----------------------------------------------------------------
\* C12: when every goroutine has called GetOrSet(k, v_i), with pairwise
\* different v_i, on the same new container whose chain does not hold k,
\* exactly one of them wrote, the container's local holds that v_i, every
\* call returned it and Get(k) returns it.
C12_GetOrSetOneWinner ==
  \A c \in DOMAIN Heap :
    (/\ \A t \in Threads : Finished(t, "GetOrSet") /\ th[t].c = c
     /\ StartHeap[c].table = EmptyMap
     /\ StartLayer(c) = Nil)
    => \E w \in Threads :
         /\ th[w].wrote
         /\ \A u \in Threads \ {w} : ~th[u].wrote
         /\ LocalHas(c) /\ LocalVal(c) = ArgOf(w)
         /\ \A t \in Threads : th[t].value = ArgOf(w)
         /\ ResolvedValue(c) = [value |-> ArgOf(w), err |-> NoErr]

\* ---- C15 ----------------------------------------------------------------
\* C15: on a chain of containers, whatever operations the goroutines call,
\* every call that was made returns, and in no reachable state is there a
\* set of goroutines each waiting for a lock withheld by another of the set.
C15_NoDeadlock ==
  /\ \A t \in Threads : InCall(t) ~> (th[t].pc = "done")
  /\ []NoWaitCycle

\* ---- C16 ----------------------------------------------------------------
\* C16: during Contains, Get, GetOrDefault and ToMap a goroutine never
\* holds the locks of two containers at once.
C16_ReadsHoldOneLock ==
  \A t \in Threads :
    th[t].op \in ReadOps => Cardinality(LocksHeldBy(t)) <= 1

\* C16, as the code has it: during Contains, Get, GetOrDefault and ToMap a
\* goroutine keeps the read lock of the receiver until the call returns;
\* while the lookup falls through, it holds the read locks of exactly the
\* layers it has entered, a prefix of the receiver's chain taken in chain
\* order, and no other lock.
C16_ReadsHoldChainPrefix ==
  \A t \in Threads :
    (th[t].op \in ReadOps /\ InCall(t)) =>
      LET ch == ChainOf(Heap, th[t].c)
          held == th[t].held
          at == CHOOSE i \in 1..Len(ch) : ch[i] = th[t].cur
      IN /\ Len(held) <= Len(ch)
         /\ \A i \in 1..Len(held) : held[i] = ch[i]
         /\ LocksHeldBy(t) = Range(held)
         /\ \A x \in Range(held) : t \in locks[x].r
         /\ th[t].pc = "sub" => Len(held) = at - 1
         /\ (th[t].pc = "ret" /\ th[t].op # "ToMap") => Len(held) = at

\* a Get that has fallen through to the shadow holds two read locks while
\* another goroutine is inside a call
C16_Witness ==
  \E t \in Threads, u \in Threads :
    /\ u # t
    /\ InCall(u)
    /\ th[t].op = "Get"
    /\ th[t].pc = "ret"
    /\ Cardinality(LocksHeldBy(t)) >= 2

\* ---- C17 ----------------------------------------------------------------
\* C17: no goroutine reads a container's local mapping without holding
\* that container's lock; in particular ToMap on a shadow copy never reads
\* the parent's local mapping outside the parent's lock.
C17_LocalReadUnderLock ==
  \A t \in Threads : ~th[t].unlocked

\* ---- C19 ----------------------------------------------------------------
\* C19: a Table.GetOrSet on a child whose local lacks the pair, running
\* while the other goroutines Delete or Set that pair on the child's
\* shadow, returns a value the shadow held for the pair at some instant of
\* the call, or newVal after having stored newVal.
C19_GetOrSetFindsOrStores ==
  \A t \in Threads :
    (/\ ~IsMapRun
     /\ Finished(t, "GetOrSet")
     /\ Heap[th[t].c].shadow # Nil
     /\ ~HasPair(StartHeap[th[t].c].table, HotKey, HotKey)
     /\ \A u \in Threads \ {t} :
          \/ th[u].op = "none"
          \/ /\ th[u].op \in {"Delete", "Set"}
             /\ th[u].c = Heap[th[t].c].shadow)
    => \/ th[t].value \in th[t].seen
       \/ th[t].value = ArgOf(t) /\ th[t].wrote

\* ---- C13 ----------------------------------------------------------------
IsWriteOn(c, k1, k2) ==
  /\ last.c = c
  /\ \/ /\ last.op \in {"Map.Add", "Map.Delete", "Map.GetOrSet", "Map.Set"}
        /\ last.k1 = k1
     \/ /\ last.op \in {"Table.Add", "Table.Delete", "Table.GetOrSet",
                        "Table.Set"}
        /\ last.k1 = k1
        /\ last.k2 = k2

MapSetOutcome ==
  LET c == last.c
      k == last.k1
      old == pre.maps[c].table
      new == maps[c].table
  IN /\ last.err = NoErr
     /\ DOMAIN new = DOMAIN old \cup {k}
     /\ \A x \in DOMAIN new : new[x] = IF x = k THEN last.arg ELSE old[x]
     /\ \A d \in 1..Len(pre.maps) : d # c => maps[d] = pre.maps[d]
     /\ MapGet(maps, c, k) = [value |-> last.arg, err |-> NoErr]
     /\ MapSet(maps, c, k, last.arg) = [maps |-> maps, err |-> NoErr]

TableSetOutcome ==
  LET c == last.c
      k1 == last.k1
      k2 == last.k2
      old == pre.tables[c].table
      new == tables[c].table
  IN /\ last.err = NoErr
     /\ \A x \in Keys, y \in Keys :
          IF <<x, y>> = <<k1, k2>>
          THEN HasPair(new, x, y) /\ new[x][y] = last.arg
          ELSE /\ HasPair(new, x, y) <=> HasPair(old, x, y)
               /\ HasPair(new, x, y) => new[x][y] = old[x][y]
     /\ \A d \in 1..Len(pre.tables) : d # c => tables[d] = pre.tables[d]
     /\ TableGet(tables, c, k1, k2) = [value |-> last.arg, err |-> NoErr]
     /\ TableSet(tables, c, k1, k2, last.arg)
          = [tables |-> tables, err |-> NoErr]

\* C13: Set(k, v) on a Map or a Table always succeeds and changes only the
\* receiver's local entry for k, which becomes v; Get(k) on the receiver
\* then returns v whatever the shadow chain holds, and repeating the same
\* Set leaves the heap as it is.  An operation that is not a write of k on
\* that container leaves Get(k) on it at the local value it had.
C13_SetThenGet ==
  /\ last.op = "Map.Set" => MapSetOutcome
  /\ last.op = "Table.Set" => TableSetOutcome
  /\ IsMapOp =>
       \A c \in 1..Len(pre.maps) : \A k \in DOMAIN pre.maps[c].table :
         ~IsWriteOn(c, k, 0) =>
           MapGet(maps, c, k) = [value |-> pre.maps[c].table[k], err |-> NoErr]
  /\ IsTableOp =>
       \A c \in 1..Len(pre.tables) : \A k1 \in Keys, k2 \in Keys :
         (HasPair(pre.tables[c].table, k1, k2) /\ ~IsWriteOn(c, k1, k2)) =>
           TableGet(tables, c, k1, k2)
             = [value |-> pre.tables[c].table[k1][k2], err |-> NoErr]

\* a Table.Set on a shadow copy that overrides a value the shadow chain holds
C13_Witness ==
  /\ last.op = "Table.Set"
  /\ pre.tables[last.c].shadow # Nil
  /\ TableGet(pre.tables, last.c, last.k1, last.k2).err = NoErr
  /\ TableGet(pre.tables, last.c, last.k1, last.k2).value # last.arg
  /\ TableGet(tables, last.c, last.k1, last.k2).value = last.arg

\* ---- C14 ----------------------------------------------------------------
\* C14: an Add that fails with the duplicate-key error and a Delete that
\* fails with the not-found or the cannot-delete-from-shadow error leave
\* the whole heap - the receiver's local storage, for a Table its set of
\* k1 branches included, and every ancestor - exactly as it was.
C14_NoPartialMutation ==
  /\ (last.op \in {"Map.Add", "Map.Delete"} /\ last.err # NoErr) =>
       maps = pre.maps
  /\ (last.op \in {"Table.Add", "Table.Delete"} /\ last.err # NoErr) =>
       tables = pre.tables

\* a Table.Add rejected as a duplicate although it offered another value
C14_Witness ==
  /\ last.op = "Table.Add"
  /\ IsDuplicate(last.err)
  /\ pre.tables[last.c].table[last.k1][last.k2] # last.arg

\* ---- C18 ----------------------------------------------------------------
\* C18: after every completed Table operation every k1 branch present in a
\* container's local storage has at least one k2 entry.
C18_NoEmptyBranch ==
  \A c \in TableIds : \A k1 \in DOMAIN tables[c].table :
    DOMAIN tables[c].table[k1] # {}

\* ---- C20 ----------------------------------------------------------------
\* C20: Map.Add on a key already in local returns MapDuplicateKey, Map.Get
\* and Map.Delete on a key absent from the whole chain return
\* MapKeyNotFound, and the error Delete returns for a shadow-only key is a
\* third value different from both.
C20_MapErrorValues ==
  /\ (last.op = "Map.Add" /\ last.k1 \in DOMAIN pre.maps[last.c].table) =>
       last.err = MapDuplicateKey
  /\ (last.op \in {"Map.Get", "Map.Delete"}
        /\ MapLayer(pre.maps, last.c, last.k1) = Nil) =>
       last.err = MapKeyNotFound
  /\ (last.op = "Map.Delete"
        /\ MapLayer(pre.maps, last.c, last.k1) \notin {Nil, last.c}) =>
       last.err \notin {NoErr, MapKeyNotFound, MapDuplicateKey}

====
